---- MODULE Spec2Model ----
(***************************************************************************)
(* Model of working_code/final_project_vaccine_model_script_OG.py:         *)
(* the daily update rule daily_infection and the three drivers             *)
(* infection_model, full_pop_infected and vaccine_introduction.            *)
(*                                                                         *)
(* random.random() returns a float in [0,1).  It is modelled as a draw     *)
(* k in 0..DrawLevels-1 standing for k/DrawLevels; a probability is an     *)
(* integer number of levels p standing for p/DrawLevels, which may be      *)
(* negative or exceed DrawLevels because the code validates nothing.       *)
(* The comparison "random.random() < infection_probability" is then the    *)
(* integer comparison k < p.                                               *)
(***************************************************************************)
EXTENDS Integers, Sequences, FiniteSets, TLC

\* ---- bounds of the model ------------------------------------------------
DrawLevels == 20
MaxStart == 2
MaxDriverStart == 1
MaxDays == 2
MaxPop == 4
MaxEncounters == 2
MaxLoopDay == 4

\* ---- program constants --------------------------------------------------
\* default of the parameter max_infections (line 8)
DefaultMaxInfections == 3
\* the call infection_model(3, 10, 0.05) of line 150; 0.05 is one draw level
ScenarioDays == 3
ScenarioStart == 10
ScenarioProb == 1

VARIABLES
    fn,                    \* the entry point that was called
    population, starting_infected, infection_probability,
    number_days, vaccine_day, vaccine_effectiveness, max_infections,
    infected_df,           \* the DataFrame: sequence of rows [Day, Infected]
    day,                   \* the local variable day of the driver
    it,                    \* position of the for loop in its list
    pc,                    \* position of the control flow
    di_starting, di_prob, di_max,      \* arguments of the running daily_infection
    extra_infected, infected_person, encounter,   \* its locals
    returned,              \* value returned by a direct daily_infection call
    printed,               \* what print() wrote: <<>> or <<number, ...>>
    calls                  \* history: arguments of every daily_infection call

params == <<fn, population, starting_infected, infection_probability,
            number_days, vaccine_day, vaccine_effectiveness, max_infections>>
frame == <<di_starting, di_prob, di_max, extra_infected, infected_person, encounter>>
vars == <<params, infected_df, day, it, pc, frame, returned, printed, calls>>

\* outcomes of random.random(): 0.0, one level, and the largest value below 1
Draws == {0, 1, DrawLevels - 1}
Probs == {-1, 0, 1, DrawLevels}
Effects == {0, 1, 2}
None == -1

\* ---- pure pieces of the code --------------------------------------------

\* line 24: random.random() < infection_probability
TrialSucceedsLe(draw, prob) == draw <= prob
TrialSucceeds(draw, prob) == draw < prob

\* line 27: return extra_infected + starting_infected
ReturnValueDropStart(extra, starting) == extra
ReturnValue(extra, starting) == extra + starting

\* lines 21, 48, 111: list(range(lo, hi)) as a sequence
RangeListShort(lo, hi) == [i \in 1..(IF hi - 1 > lo THEN hi - 1 - lo ELSE 0) |-> lo + i - 1]
RangeList(lo, hi) == [i \in 1..(IF hi > lo THEN hi - lo ELSE 0) |-> lo + i - 1]

\* lines 49, 76, 77, 113, 115: infected_df['Infected'][len(infected_df)-1]
LastInfectedFirstRow(df) == df[1].Infected
LastInfected(df) == df[Len(df)].Infected

\* lines 51, 82, 118: infected_df.loc[len(infected_df)] = day_reading
AppendRow(df, d, n) == Append(df, [Day |-> d, Infected |-> n])

\* line 76: the condition of the while loop
WhileCondLe(last, pop) == last <= pop
WhileCond(last, pop) == last < pop

\* lines 78-81: the recorded value of a day of full_pop_infected
RecordedNoClamp(day_infection, pop) == day_infection
Recorded(day_infection, pop) ==
    IF day_infection < pop THEN day_infection ELSE pop

\* lines 112-115: the probability vaccine_introduction passes for a day
DayProbabilityLe(d, vday, prob, eff) == IF d <= vday THEN prob ELSE prob - eff
DayProbability(d, vday, prob, eff) == IF d < vday THEN prob ELSE prob - eff

\* lines 43-46, 69-72, 105-108: the DataFrame with the day-0 row
InitialFrame(starting) == <<[Day |-> 0, Infected |-> starting]>>

\* ---- initial states: one call of one entry point ------------------------

InitCommon ==
    /\ day = None /\ it = 0
    /\ di_starting = 0 /\ di_prob = 0 /\ di_max = 0
    /\ extra_infected = 0 /\ infected_person = 0 /\ encounter = 0
    /\ returned = None /\ printed = <<>> /\ calls = <<>>
    /\ pc = "start"
    /\ infected_df = <<>>

CallDailyInfection(s, p, m) ==
    /\ fn = "daily_infection"
    /\ starting_infected = s /\ infection_probability = p /\ max_infections = m
    /\ population = 0 /\ number_days = 0 /\ vaccine_day = 0 /\ vaccine_effectiveness = 0

CallInfectionModel(n, s, p) ==
    /\ fn = "infection_model"
    /\ number_days = n /\ starting_infected = s /\ infection_probability = p
    /\ max_infections = DefaultMaxInfections
    /\ population = 0 /\ vaccine_day = 0 /\ vaccine_effectiveness = 0

CallFullPopInfected(pop, s, p) ==
    /\ fn = "full_pop_infected"
    /\ population = pop /\ starting_infected = s /\ infection_probability = p
    /\ max_infections = DefaultMaxInfections
    /\ number_days = 0 /\ vaccine_day = 0 /\ vaccine_effectiveness = 0

CallVaccineIntroduction(s, vday, eff, n, p) ==
    /\ fn = "vaccine_introduction"
    /\ starting_infected = s /\ vaccine_day = vday /\ vaccine_effectiveness = eff
    /\ number_days = n /\ infection_probability = p
    /\ max_infections = DefaultMaxInfections
    /\ population = 0

SmallCalls ==
       \/ \E s \in 0..MaxStart, p \in Probs, m \in 0..MaxEncounters :
            CallDailyInfection(s, p, m)
       \/ \E n \in 0..MaxDays, s \in 0..MaxDriverStart, p \in Probs :
            CallInfectionModel(n, s, p)
       \/ \E pop \in 0..MaxPop, s \in 0..MaxStart, p \in Probs :
            CallFullPopInfected(pop, s, p)
       \/ \E s \in 0..MaxDriverStart, vday \in 0..(MaxDays + 1), eff \in Effects,
             n \in 0..MaxDays, p \in Probs :
            CallVaccineIntroduction(s, vday, eff, n, p)

Init == InitCommon /\ SmallCalls

\* the small calls and the call of line 150, for the runs in which the random
\* source is fixed to return 0.0
InitFixedZero ==
    /\ InitCommon
    /\ \/ SmallCalls
       \/ CallInfectionModel(ScenarioDays, ScenarioStart, ScenarioProb)

\* ---- daily_infection (lines 8-27) ---------------------------------------

\* the call: binds the arguments, line 20 extra_infected = 0, line 21 builds
\* the list the for loop walks
Invoke(s, p, m) ==
    /\ di_starting' = s /\ di_prob' = p /\ di_max' = m
    /\ extra_infected' = 0 /\ infected_person' = 0 /\ encounter' = 0
    /\ calls' = Append(calls, [starting |-> s, prob |-> p, max |-> m])
    /\ pc' = "di_for"

\* line 21-22: the for loop takes the next person, or is exhausted
DI_For ==
    /\ pc = "di_for"
    /\ IF infected_person < Len(RangeList(0, di_starting))
       THEN /\ infected_person' = infected_person + 1
            /\ encounter' = 0
            /\ pc' = "di_while"
       ELSE /\ pc' = "di_return"
            /\ UNCHANGED <<infected_person, encounter>>
    /\ UNCHANGED <<params, infected_df, day, it, di_starting, di_prob, di_max,
                   extra_infected, returned, printed, calls>>

\* lines 23-26: one encounter, with the draw d of random.random()
Trial(d) ==
    /\ pc = "di_while"
    /\ encounter < di_max
    /\ extra_infected' = IF TrialSucceeds(d, di_prob)
                         THEN extra_infected + 1 ELSE extra_infected
    /\ encounter' = encounter + 1
    /\ UNCHANGED <<params, infected_df, day, it, pc, di_starting, di_prob, di_max,
                   infected_person, returned, printed, calls>>

DI_Trial(D) == \E d \in D : Trial(d)

\* line 23: the while condition is false
DI_WhileExit ==
    /\ pc = "di_while"
    /\ ~(encounter < di_max)
    /\ pc' = "di_for"
    /\ UNCHANGED <<params, infected_df, day, it, frame, returned, printed, calls>>

\* a direct call daily_infection(s, p, m) and its return (line 27)
DI_Start ==
    /\ pc = "start" /\ fn = "daily_infection"
    /\ Invoke(starting_infected, infection_probability, max_infections)
    /\ UNCHANGED <<params, infected_df, day, it, returned, printed>>

DI_Return ==
    /\ pc = "di_return" /\ fn = "daily_infection"
    /\ returned' = ReturnValue(extra_infected, di_starting)
    /\ pc' = "done"
    /\ UNCHANGED <<params, infected_df, day, it, frame, printed, calls>>

\* ---- infection_model (lines 31-53) --------------------------------------

IM_Start ==
    /\ pc = "start" /\ fn = "infection_model"
    /\ infected_df' = InitialFrame(starting_infected)
    /\ it' = 0
    /\ pc' = "im_for"
    /\ UNCHANGED <<params, day, frame, returned, printed, calls>>

\* line 48-49: next element of the list, call of daily_infection; or line 53
IM_For ==
    /\ pc = "im_for"
    /\ LET days == RangeList(1, number_days + 1) IN
       IF it < Len(days)
       THEN /\ day' = days[it + 1]
            /\ it' = it + 1
            /\ Invoke(LastInfected(infected_df), infection_probability,
                      DefaultMaxInfections)
       ELSE /\ pc' = "done"
            /\ UNCHANGED <<day, it, frame, calls>>
    /\ UNCHANGED <<params, infected_df, returned, printed>>

\* lines 49-51: daily_infection returns, the row is appended
IM_Append ==
    /\ pc = "di_return" /\ fn = "infection_model"
    /\ LET day_infection == ReturnValue(extra_infected, di_starting) IN
       infected_df' = AppendRow(infected_df, day, day_infection)
    /\ pc' = "im_for"
    /\ UNCHANGED <<params, day, it, frame, returned, printed, calls>>

\* ---- full_pop_infected (lines 57-87) ------------------------------------

FP_Start ==
    /\ pc = "start" /\ fn = "full_pop_infected"
    /\ infected_df' = InitialFrame(starting_infected)
    /\ day' = 1
    /\ pc' = "fp_while"
    /\ UNCHANGED <<params, it, frame, returned, printed, calls>>

\* lines 76-77: the loop condition holds and daily_infection is called.
\* The loop has no bound of its own: MaxLoopDay cuts the run off.
FP_While ==
    /\ pc = "fp_while"
    /\ WhileCond(LastInfected(infected_df), population)
    /\ day <= MaxLoopDay
    /\ Invoke(LastInfected(infected_df), infection_probability, DefaultMaxInfections)
    /\ UNCHANGED <<params, infected_df, day, it, returned, printed>>

\* lines 76, 85, 87: the loop condition fails, the summary is printed
FP_Exit ==
    /\ pc = "fp_while"
    /\ ~WhileCond(LastInfected(infected_df), population)
    /\ printed' = <<day>>
    /\ pc' = "done"
    /\ UNCHANGED <<params, infected_df, day, it, frame, returned, calls>>

\* lines 77-83: daily_infection returns, the clamped row is appended, day += 1
FP_Append ==
    /\ pc = "di_return" /\ fn = "full_pop_infected"
    /\ LET day_infection == ReturnValue(extra_infected, di_starting) IN
       infected_df' = AppendRow(infected_df, day, Recorded(day_infection, population))
    /\ day' = day + 1
    /\ pc' = "fp_while"
    /\ UNCHANGED <<params, it, frame, returned, printed, calls>>

\* ---- vaccine_introduction (lines 91-125) --------------------------------

VI_Start ==
    /\ pc = "start" /\ fn = "vaccine_introduction"
    /\ infected_df' = InitialFrame(starting_infected)
    /\ day' = 1
    /\ it' = 0
    /\ pc' = "vi_for"
    /\ UNCHANGED <<params, frame, returned, printed, calls>>

\* lines 111-115: the for loop rebinds day to the next element of its list
\* and calls daily_infection; or lines 122-125 when the list is exhausted
VI_For ==
    /\ pc = "vi_for"
    /\ LET days == RangeList(1, number_days + 1) IN
       IF it < Len(days)
       THEN /\ day' = days[it + 1]
            /\ it' = it + 1
            /\ Invoke(LastInfected(infected_df),
                      DayProbability(days[it + 1], vaccine_day,
                                     infection_probability, vaccine_effectiveness),
                      DefaultMaxInfections)
            /\ UNCHANGED printed
       ELSE /\ printed' = <<vaccine_day, LastInfected(infected_df), number_days>>
            /\ pc' = "done"
            /\ UNCHANGED <<day, it, frame, calls>>
    /\ UNCHANGED <<params, infected_df, returned>>

\* lines 117-119: the row is appended with the loop's day, then day += 1
VI_Append ==
    /\ pc = "di_return" /\ fn = "vaccine_introduction"
    /\ LET day_infection == ReturnValue(extra_infected, di_starting) IN
       infected_df' = AppendRow(infected_df, day, day_infection)
    /\ day' = day + 1
    /\ pc' = "vi_for"
    /\ UNCHANGED <<params, it, frame, returned, printed, calls>>

\* ---- specifications -----------------------------------------------------

Steps ==
    \/ DI_Start \/ DI_For \/ DI_WhileExit \/ DI_Return
    \/ IM_Start \/ IM_For \/ IM_Append
    \/ FP_Start \/ FP_While \/ FP_Exit \/ FP_Append
    \/ VI_Start \/ VI_For \/ VI_Append

Next == Steps \/ DI_Trial(Draws)

Spec == Init /\ [][Next]_vars


\* the random source replaced by one that always returns 0.0
NextFixedZero == Steps \/ DI_Trial({0})

SpecFixedZero == InitFixedZero /\ [][NextFixedZero]_vars

\* a trial that can succeed eventually does
TrialSuccess == \E d \in Draws : TrialSucceeds(d, di_prob) /\ Trial(d)

FairSpec == Init /\ [][Next]_vars /\ WF_vars(Next) /\ SF_vars(TrialSuccess)

\* ---- properties ---------------------------------------------------------

RECURSIVE Pow(_, _)
Pow(b, e) == IF e = 0 THEN 1 ELSE b * Pow(b, e - 1)

Done == pc = "done"
Rows == 1..Len(infected_df)
\* the value daily_infection returned to the driver's last call
LastRaw == extra_infected + di_starting

\* C1 (as stated): whenever full_pop_infected returns, the last recorded
\* Infected value equals the population and no earlier one reaches it.
C1_LastIsPopulation ==
    (fn = "full_pop_infected" /\ Done) =>
        /\ LastInfected(infected_df) = population
        /\ \A i \in Rows : i < Len(infected_df) => infected_df[i].Infected < population

\* C1 (amended): whenever full_pop_infected returns, no recorded value before
\* the last reaches the population, and the last recorded value equals the
\* population when starting_infected <= population and equals
\* starting_infected (the only row) when starting_infected > population.
C1_LastIsPopulationOrStart ==
    (fn = "full_pop_infected" /\ Done) =>
        /\ LastInfected(infected_df) =
              IF starting_infected <= population THEN population ELSE starting_infected
        /\ starting_infected > population => Len(infected_df) = 1
        /\ \A i \in Rows : i < Len(infected_df) => infected_df[i].Infected < population

C1_Witness ==
    /\ fn = "full_pop_infected" /\ Done
    /\ Len(infected_df) >= 3
    /\ LastRaw > population
    /\ LastInfected(infected_df) = population

\* C2: full_pop_infected with starting_infected >= population never calls
\* daily_infection, and returns only the day-0 row with day still 1.
C2_ZeroIterations ==
    (fn = "full_pop_infected" /\ starting_infected >= population) =>
        /\ calls = <<>>
        /\ pc \in {"start", "fp_while", "done"}
        /\ Done => /\ infected_df = <<[Day |-> 0, Infected |-> starting_infected]>>
                   /\ day = 1
                   /\ printed = <<1>>

C2_Witness ==
    /\ fn = "full_pop_infected" /\ Done
    /\ starting_infected = population /\ population > 0
    /\ printed = <<1>>

\* C3: when the loop of full_pop_infected ran at least once, the printed day
\* count equals the Day value of the last row of the returned series.
C3_PrintedDayIsLastRowDay ==
    (fn = "full_pop_infected" /\ Done /\ Len(infected_df) > 1) =>
        printed = <<infected_df[Len(infected_df)].Day>>

\* C4: infection_model and vaccine_introduction return number_days + 1 rows
\* with Day = 0, 1, ..., number_days in order; in vaccine_introduction the
\* day compared against vaccine_day is the Day of the row being computed.
C4_DayValues ==
    fn \in {"infection_model", "vaccine_introduction"} =>
        /\ \A i \in Rows : infected_df[i].Day = i - 1
        /\ Len(infected_df) <= number_days + 1
        /\ Done => Len(infected_df) = number_days + 1
        /\ fn = "vaccine_introduction" =>
              \A k \in 1..Len(calls) :
                  calls[k].prob = IF k < vaccine_day
                                  THEN infection_probability
                                  ELSE infection_probability - vaccine_effectiveness

C4_Witness ==
    /\ fn = "vaccine_introduction" /\ Done
    /\ number_days >= 2
    /\ vaccine_day = 2
    /\ vaccine_effectiveness > 0
    /\ Len(infected_df) = number_days + 1

\* C5: daily_infection(starting_infected, 0, max_infections) returns exactly
\* starting_infected, whatever the draws.
C5_ZeroProbability ==
    (fn = "daily_infection" /\ infection_probability = 0) =>
        /\ extra_infected = 0
        /\ Done => returned = starting_infected

C5_Witness ==
    /\ fn = "daily_infection" /\ Done
    /\ infection_probability = 0
    /\ starting_infected >= 2 /\ max_infections >= 2
    /\ returned = starting_infected

\* C6: daily_infection(starting_infected, 1, max_infections) with
\* max_infections >= 1 returns starting_infected * (1 + max_infections).
C6_ProbabilityOne ==
    (fn = "daily_infection" /\ infection_probability = DrawLevels
        /\ max_infections >= 1 /\ Done) =>
        /\ returned = starting_infected * (1 + max_infections)
        /\ extra_infected = starting_infected * max_infections

C6_Witness ==
    /\ fn = "daily_infection" /\ Done
    /\ infection_probability = DrawLevels
    /\ starting_infected >= 2 /\ max_infections >= 2
    /\ returned > starting_infected

\* C7: with the random source fixed to 0.0 and a positive probability,
\* infection_model passes each recorded count to the next call with
\* max_infections = 3, the count of day d is starting_infected * 4^d, and
\* infection_model(3, 10, 0.05) yields 10, 40, 160, 640 for days 0..3.
C7_AlwaysSucceed ==
    (fn = "infection_model" /\ infection_probability > 0) =>
        /\ \A i \in Rows : infected_df[i].Infected = starting_infected * Pow(4, i - 1)
        /\ \A k \in 1..Len(calls) :
              /\ calls[k].starting = infected_df[k].Infected
              /\ calls[k].max = 3
        /\ (Done /\ number_days = 3 /\ starting_infected = 10) =>
              infected_df = << [Day |-> 0, Infected |-> 10], [Day |-> 1, Infected |-> 40],
                               [Day |-> 2, Infected |-> 160], [Day |-> 3, Infected |-> 640] >>

C7_Witness ==
    /\ fn = "infection_model" /\ Done
    /\ number_days = 3 /\ starting_infected = 10 /\ infection_probability = 1
    /\ LastInfected(infected_df) = 640

\* C8: in every series the Infected value never decreases from one row to
\* the next, and daily_infection never returns less than starting_infected.
C8_NonDecreasing ==
    /\ \A i \in Rows : i > 1 => infected_df[i].Infected >= infected_df[i - 1].Infected
    /\ (fn = "daily_infection" /\ Done) => returned >= starting_infected

C8_Witness ==
    /\ fn = "full_pop_infected" /\ Done
    /\ Len(infected_df) = 3
    /\ infected_df[2].Infected > infected_df[1].Infected
    /\ LastRaw > population
    /\ infection_probability < DrawLevels

\* C9: vaccine_introduction computes the days before vaccine_day with
\* infection_probability and the days from vaccine_day on with
\* infection_probability - vaccine_effectiveness; when that difference is
\* negative every day from vaccine_day on records the previous day's value.
C9_VaccineDays ==
    fn = "vaccine_introduction" =>
        /\ \A k \in 1..Len(calls) : k + 1 <= Len(infected_df) =>
              calls[k].prob = IF infected_df[k + 1].Day < vaccine_day
                              THEN infection_probability
                              ELSE infection_probability - vaccine_effectiveness
        /\ infection_probability - vaccine_effectiveness < 0 =>
              \A i \in Rows : (i > 1 /\ infected_df[i].Day >= vaccine_day) =>
                  infected_df[i].Infected = infected_df[i - 1].Infected

C9_Witness ==
    /\ fn = "vaccine_introduction" /\ Done
    /\ infection_probability - vaccine_effectiveness < 0
    /\ infection_probability > 0
    /\ vaccine_day = 2 /\ number_days >= 2
    /\ infected_df[2].Infected > infected_df[1].Infected
    /\ infected_df[3].Infected = infected_df[2].Infected

\* the model's bound stopped a run of the loop in which a trial can succeed
CutOffWhileGrowing ==
    /\ pc = "fp_while"
    /\ day > MaxLoopDay
    /\ LastInfected(infected_df) >= 1
    /\ infection_probability >= 1

\* a call of full_pop_infected in which the loop condition holds and no trial
\* of this or any later day can succeed
LoopCannotGrow ==
    /\ fn = "full_pop_infected" /\ infected_df # <<>> /\ ~Done
    /\ WhileCond(LastInfected(infected_df), population)
    /\ (LastInfected(infected_df) <= 0 \/ infection_probability <= 0)

\* such a state is never left: the runs that violate C10_Terminates do not
\* stop at MaxLoopDay because of the bound, the loop has no exit for them
LoopCannotGrowIsClosed == [][LoopCannotGrow => LoopCannotGrow']_vars

\* C10: every call of full_pop_infected runs to completion; runs the model's
\* bound MaxLoopDay stopped while a trial could still succeed do not count.
C10_Terminates ==
    <>(fn # "full_pop_infected" \/ Done \/ CutOffWhileGrowing)

====
